---- MODULE Spec2Model ----
(***************************************************************************)
(* The relational-to-graph loader (app/etl.py) and the graph queries       *)
(* (app/main.py).                                                          *)
(*                                                                         *)
(* The graph store is a property graph: every node and every relationship  *)
(* has an identity of its own (its position in the sequence that holds     *)
(* it), so duplicate nodes and parallel relationships are representable    *)
(* and MERGE, MATCH and CREATE are modelled by what they do to them.       *)
(***************************************************************************)
EXTENDS Integers, Sequences, FiniteSets, TLC

VARIABLES
    src,       \* the relational store: the six tables read by etl()
    g,         \* the graph store
    pc,        \* position of etl(): "idle", the table being loaded, "done"
    i,         \* index of the next row of the table being loaded
    skipped,   \* relationship writes of the running load whose MATCH bound nothing
    hist,      \* one entry per completed load: the source it read, the graph it left
    itemLog,   \* every order_items row processed so far, oldest first
    response   \* the response of the query answered by the last step

vars == <<src, g, pc, i, skipped, hist, itemLog, response>>

-----------------------------------------------------------------------------
(* Bounds of the model *)

MaxRows == 2      \* rows of the table a source family varies
MaxLoads == 2     \* runs of etl() in one behaviour
NumOthers == 11   \* customers other than the queried one in the neighbour fixture

-----------------------------------------------------------------------------
(* Generic helpers *)

Range(s) == {s[k] : k \in DOMAIN s}

SeqsUpTo(S, n) == UNION {[1..m -> S] : m \in 0..n}

-----------------------------------------------------------------------------
(* The graph store and the Cypher clauses the loader uses *)

EmptyGraph ==
    [cats |-> <<>>, prods |-> <<>>, custs |-> <<>>, ords |-> <<>>,
     inCategory |-> <<>>, placed |-> <<>>, contains |-> <<>>, events |-> <<>>]

\* MATCH (n:Label {id: $id}): the nodes of the label with that id
MatchNodes(nodes, id) == {k \in DOMAIN nodes : nodes[k].id = id}

\* faulty variant: CREATE in place of MERGE: a node is created whether or not one matches
CreateNode(nodes, id) == Append(nodes, [id |-> id])

\* MERGE (n:Label {id: $id}): binds the matching nodes, creates one when none matches
MergeNode(nodes, id) ==
    IF MatchNodes(nodes, id) = {} THEN Append(nodes, [id |-> id]) ELSE nodes

\* MERGE (n:Label {id: $id}) SET n.<props>: every bound node gets the properties
MergeSetNode(nodes, id, props) ==
    LET merged == MergeNode(nodes, id)
    IN  [k \in DOMAIN merged |-> IF merged[k].id = id THEN props ELSE merged[k]]

\* MERGE (a)-[:T]->(b) for one bound pair: creates the relationship if absent
MergeEdge(edges, from, to) ==
    IF \E k \in DOMAIN edges : edges[k].from = from /\ edges[k].to = to
    THEN edges
    ELSE Append(edges, [from |-> from, to |-> to])

\* the MERGE of a relationship runs once per row the preceding MATCHes bound
RECURSIVE MergeEdges(_, _)
MergeEdges(edges, rows) ==
    IF rows = {} THEN edges
    ELSE LET r == CHOOSE r \in rows : TRUE
         IN  MergeEdges(MergeEdge(edges, r[1], r[2]), rows \ {r})

\* faulty variant: the quantity of an existing relationship is added to, not overwritten
MergeAddContains(edges, from, to, quantity) ==
    IF \E k \in DOMAIN edges : edges[k].from = from /\ edges[k].to = to
    THEN [k \in DOMAIN edges |->
            IF edges[k].from = from /\ edges[k].to = to
            THEN [edges[k] EXCEPT !.quantity = @ + quantity]
            ELSE edges[k]]
    ELSE Append(edges, [from |-> from, to |-> to, quantity |-> quantity])

\* MERGE (o)-[r:CONTAINS]->(p) SET r.quantity = $quantity, for one bound pair
MergeSetContains(edges, from, to, quantity) ==
    LET merged == MergeEdge(edges, from, to)
    IN  [k \in DOMAIN merged |->
           IF merged[k].from = from /\ merged[k].to = to
           THEN [from |-> from, to |-> to, quantity |-> quantity]
           ELSE merged[k]]

RECURSIVE MergeSetContainsRows(_, _, _)
MergeSetContainsRows(edges, rows, quantity) ==
    IF rows = {} THEN edges
    ELSE LET r == CHOOSE r \in rows : TRUE
         IN  MergeSetContainsRows(MergeSetContains(edges, r[1], r[2], quantity),
                                  rows \ {r}, quantity)

\* faulty variant: MERGE in place of CREATE: no second relationship of a type between a pair
RECURSIVE MergeEvents(_, _, _)
MergeEvents(edges, rows, props) ==
    IF rows = {} THEN edges
    ELSE LET r == CHOOSE r \in rows : TRUE
             present == \E k \in DOMAIN edges :
                            /\ edges[k].type = props.type
                            /\ edges[k].from = r[1]
                            /\ edges[k].to = r[2]
         IN  MergeEvents(
                 IF present THEN edges
                 ELSE Append(edges, [type |-> props.type, from |-> r[1], to |-> r[2],
                                     ts |-> props.ts, event_id |-> props.event_id]),
                 rows \ {r}, props)

\* CREATE (c)-[r:T]->(p) SET r.ts, r.event_id: once per bound row, never merged
RECURSIVE CreateEvents(_, _, _)
CreateEvents(edges, rows, props) ==
    IF rows = {} THEN edges
    ELSE LET r == CHOOSE r \in rows : TRUE
         IN  CreateEvents(
                 Append(edges, [type |-> props.type, from |-> r[1], to |-> r[2],
                                ts |-> props.ts, event_id |-> props.event_id]),
                 rows \ {r}, props)

-----------------------------------------------------------------------------
(* The loader's statement for one row of each table *)

\* float(row['price']): the Decimal read from the store as a float of the same value
ToFloat(price) == price

\* int(row['quantity'])
ToInt(quantity) == quantity

\* event_type_map.get(row['event_type'], 'INTERACTED')
RelType(event_type) ==
    CASE event_type = "view" -> "VIEWED"
      [] event_type = "click" -> "CLICKED"
      [] event_type = "add_to_cart" -> "ADDED_TO_CART"
      [] OTHER -> "INTERACTED"

LoadCategoryRow(gr, row) ==
    [gr EXCEPT !.cats = MergeSetNode(@, row.id, [id |-> row.id, name |-> row.name])]

LoadProductRow(gr, row) ==
    LET prods == MergeSetNode(gr.prods, row.id,
                     [id |-> row.id, name |-> row.name, price |-> ToFloat(row.price)])
        rows == MatchNodes(prods, row.id) \X MatchNodes(gr.cats, row.category_id)
    IN  [gr EXCEPT !.prods = prods, !.inCategory = MergeEdges(@, rows)]

LoadCustomerRow(gr, row) ==
    [gr EXCEPT !.custs = MergeSetNode(@, row.id,
                     [id |-> row.id, name |-> row.name, join_date |-> row.join_date])]

LoadOrderRow(gr, row) ==
    LET ords == MergeSetNode(gr.ords, row.id, [id |-> row.id, ts |-> row.ts])
        rows == MatchNodes(gr.custs, row.customer_id) \X MatchNodes(ords, row.id)
    IN  [gr EXCEPT !.ords = ords, !.placed = MergeEdges(@, rows)]

LoadOrderItemRow(gr, row) ==
    LET rows == MatchNodes(gr.ords, row.order_id) \X MatchNodes(gr.prods, row.product_id)
    IN  [gr EXCEPT !.contains = MergeSetContainsRows(@, rows, ToInt(row.quantity))]

LoadEventRow(gr, row) ==
    LET rows == MatchNodes(gr.custs, row.customer_id) \X MatchNodes(gr.prods, row.product_id)
    IN  [gr EXCEPT !.events = CreateEvents(@, rows,
                     [type |-> RelType(row.event_type), ts |-> row.ts, event_id |-> row.id])]

\* the rows the MATCH clauses of a relationship-creating statement bind
EndpointRows(gr, phase, row) ==
    CASE phase = "products" ->
             MatchNodes(gr.prods, row.id) \X MatchNodes(gr.cats, row.category_id)
      [] phase = "orders" ->
             MatchNodes(gr.custs, row.customer_id) \X MatchNodes(gr.ords, row.id)
      [] phase = "order_items" ->
             MatchNodes(gr.ords, row.order_id) \X MatchNodes(gr.prods, row.product_id)
      [] phase = "events" ->
             MatchNodes(gr.custs, row.customer_id) \X MatchNodes(gr.prods, row.product_id)
      [] OTHER -> {<<0, 0>>}

LoadRow(gr, phase, row) ==
    CASE phase = "categories" -> LoadCategoryRow(gr, row)
      [] phase = "products" -> LoadProductRow(gr, row)
      [] phase = "customers" -> LoadCustomerRow(gr, row)
      [] phase = "orders" -> LoadOrderRow(gr, row)
      [] phase = "order_items" -> LoadOrderItemRow(gr, row)
      [] phase = "events" -> LoadEventRow(gr, row)

\* faulty variant: the products loop placed before the categories loop
ProductsFirst == <<"products", "categories", "customers", "orders", "order_items", "events">>

\* the order of the six loading loops of etl()
PhaseOrder == <<"categories", "products", "customers", "orders", "order_items", "events">>

PhaseIndex(phase) == CHOOSE k \in DOMAIN PhaseOrder : PhaseOrder[k] = phase

AfterPhase(phase) ==
    IF PhaseIndex(phase) = Len(PhaseOrder) THEN "done"
    ELSE PhaseOrder[PhaseIndex(phase) + 1]

Table(s, phase) ==
    CASE phase = "categories" -> s.categories
      [] phase = "products" -> s.products
      [] phase = "customers" -> s.customers
      [] phase = "orders" -> s.orders
      [] phase = "order_items" -> s.order_items
      [] phase = "events" -> s.events

-----------------------------------------------------------------------------
(* The relational sources the model loads *)

CustomerIds ==
    <<"C1", "C2", "C3", "C4", "C5", "C6", "C7", "C8", "C9", "C10", "C11", "C12", "C13", "C14">>
OrderIds ==
    <<"O1", "O2", "O3", "O4", "O5", "O6", "O7", "O8", "O9", "O10", "O11", "O12", "O13", "O14">>
EventIds == <<"E1", "E2", "E3", "E4", "E5", "E6">>

Category(id, name) == [id |-> id, name |-> name]
Product(id, name, category_id, price) ==
    [id |-> id, name |-> name, category_id |-> category_id, price |-> price]
Customer(id, name) == [id |-> id, name |-> name, join_date |-> "2024-01-15"]
Order(id, customer_id) == [id |-> id, customer_id |-> customer_id, ts |-> "2024-03-01T10:00:00"]
Item(order_id, product_id, quantity) ==
    [order_id |-> order_id, product_id |-> product_id, quantity |-> quantity]
Event(id, customer_id, product_id, event_type) ==
    [id |-> id, customer_id |-> customer_id, product_id |-> product_id,
     event_type |-> event_type, ts |-> "2024-03-02T09:30:00"]

\* a well-formed source: every foreign key names a row of its table
BaseSource ==
    [categories |-> <<Category("K1", "Books"), Category("K2", "Games")>>,
     products |-> <<Product("P1", "Novel", "K1", 10), Product("P2", "Chess", "K2", 20)>>,
     customers |-> <<Customer("C1", "Ann"), Customer("C2", "Bob")>>,
     orders |-> <<Order("O1", "C1"), Order("O2", "C2")>>,
     order_items |-> <<Item("O1", "P1", 1), Item("O2", "P1", 2), Item("O2", "P2", 1)>>,
     events |-> <<Event("E1", "C1", "P1", "view"), Event("E2", "C2", "P1", "click")>>]

\* the ids "K0", "C0", "O0", "P0" name no row of any source
CategoryRows == {Category(id, name) : id \in {"K1", "K2"}, name \in {"Books", "Games"}}
ProductRows ==
    {Product(id, "Novel", k, price) : id \in {"P1", "P2"}, k \in {"K1", "K2", "K0"},
                                      price \in {10, 20}}
CustomerRows == {Customer(id, name) : id \in {"C1", "C2"}, name \in {"Ann", "Bob"}}
OrderRows == {Order(id, c) : id \in {"O1", "O2"}, c \in {"C1", "C2", "C0"}}
ItemRows ==
    {Item("O1", "P1", 1), Item("O1", "P1", 2), Item("O2", "P1", 2), Item("O2", "P2", 1),
     Item("O1", "P0", 1)}
EventRows ==
    {Event("E0", c, "P1", t) : c \in {"C1", "C0"}, t \in {"view", "add_to_cart", "purchase"}}

\* events.id is the table's key: the k-th row gets the k-th id
KeyEvents(rows) == [k \in DOMAIN rows |-> [rows[k] EXCEPT !.id = EventIds[k]]]

\* categories, products, customers and orders are keyed by id: no id occurs twice
KeyedSeqsUpTo(S, n) ==
    {t \in SeqsUpTo(S, n) : \A a, b \in DOMAIN t : a # b => t[a].id # t[b].id}

\* the base source with one table replaced by any table of at most MaxRows rows
FamilySources ==
    {[BaseSource EXCEPT !.categories = t] : t \in KeyedSeqsUpTo(CategoryRows, MaxRows)}
    \cup {[BaseSource EXCEPT !.products = t] : t \in KeyedSeqsUpTo(ProductRows, MaxRows)}
    \cup {[BaseSource EXCEPT !.customers = t] : t \in KeyedSeqsUpTo(CustomerRows, MaxRows)}
    \cup {[BaseSource EXCEPT !.orders = t] : t \in KeyedSeqsUpTo(OrderRows, MaxRows)}
    \cup {[BaseSource EXCEPT !.order_items = t] : t \in SeqsUpTo(ItemRows, MaxRows)}
    \cup {[BaseSource EXCEPT !.events = KeyEvents(t)] : t \in SeqsUpTo(EventRows, MaxRows)}

RECURSIVE Concat(_)
Concat(ss) == IF ss = <<>> THEN <<>> ELSE Head(ss) \o Concat(Tail(ss))

\* C1 bought P1 and P2; of the NumOthers other customers the first `strong` bought
\* P1, P2 and P3, the rest bought P1 and P4
NeighbourSource(strong) ==
    [categories |-> <<Category("K1", "Books")>>,
     products |-> <<Product("P1", "Novel", "K1", 10), Product("P2", "Atlas", "K1", 20),
                    Product("P3", "Diary", "K1", 20), Product("P4", "Comic", "K1", 10)>>,
     customers |-> [n \in 1..(NumOthers + 1) |-> Customer(CustomerIds[n], "Ann")],
     orders |-> [n \in 1..(NumOthers + 1) |-> Order(OrderIds[n], CustomerIds[n])],
     order_items |->
         <<Item("O1", "P1", 1), Item("O1", "P2", 1)>>
         \o Concat([n \in 1..NumOthers |->
                IF n <= strong
                THEN <<Item(OrderIds[n + 1], "P1", 1), Item(OrderIds[n + 1], "P2", 1),
                       Item(OrderIds[n + 1], "P3", 1)>>
                ELSE <<Item(OrderIds[n + 1], "P1", 1), Item(OrderIds[n + 1], "P4", 1)>>]),
     events |-> <<>>]

\* order counts 5, 5, 2 with prices 10, 20, 5
PopularSource ==
    [categories |-> <<Category("K1", "Books")>>,
     products |-> <<Product("P1", "Novel", "K1", 10), Product("P2", "Atlas", "K1", 20),
                    Product("P3", "Diary", "K1", 5)>>,
     customers |-> <<Customer("C1", "Ann")>>,
     orders |-> [n \in 1..5 |-> Order(OrderIds[n], "C1")],
     order_items |->
         Concat([n \in 1..5 |->
             <<Item(OrderIds[n], "P2", 1), Item(OrderIds[n], "P1", 1)>>
             \o (IF n <= 2 THEN <<Item(OrderIds[n], "P3", 1)>> ELSE <<>>)]),
     events |-> <<>>]

\* C1 viewed P1 (twice), P2 and P3, clicked P1, added nothing to the cart, bought P1 and P2
JourneySource ==
    [categories |-> <<Category("K1", "Books")>>,
     products |-> <<Product("P1", "Novel", "K1", 10), Product("P2", "Atlas", "K1", 20),
                    Product("P3", "Diary", "K1", 5)>>,
     customers |-> <<Customer("C1", "Ann"), Customer("C2", "Bob")>>,
     orders |-> <<Order("O1", "C1")>>,
     order_items |-> <<Item("O1", "P1", 1), Item("O1", "P2", 3)>>,
     events |-> KeyEvents(<<Event("E0", "C1", "P1", "view"), Event("E0", "C1", "P2", "view"),
                            Event("E0", "C1", "P3", "view"), Event("E0", "C1", "P1", "view"),
                            Event("E0", "C1", "P1", "click")>>)]

\* C1 bought P1, C2 bought P1 and P2, C3 bought P1 and P3
SharedProductSource ==
    [categories |-> <<Category("K1", "Books")>>,
     products |-> <<Product("P1", "Novel", "K1", 10), Product("P2", "Atlas", "K1", 20),
                    Product("P3", "Diary", "K1", 5)>>,
     customers |-> <<Customer("C1", "Ann"), Customer("C2", "Bob"), Customer("C3", "Cy")>>,
     orders |-> <<Order("O1", "C1"), Order("O2", "C2"), Order("O3", "C3")>>,
     order_items |-> <<Item("O1", "P1", 1), Item("O2", "P1", 1), Item("O2", "P2", 1),
                       Item("O3", "P1", 2), Item("O3", "P3", 1)>>,
     events |-> <<>>]

FixtureSources ==
    {NeighbourSource(strong) : strong \in {0, 1, 5, NumOthers - 1, NumOthers}}
    \cup {PopularSource, JourneySource, SharedProductSource}

Sources == FamilySources \cup FixtureSources

-----------------------------------------------------------------------------
(* The loader: etl() *)

NoResponse == [op |-> "none"]

Init ==
    /\ src \in Sources
    /\ g = EmptyGraph
    /\ pc = "idle"
    /\ i = 1
    /\ skipped = {}
    /\ hist = <<>>
    /\ itemLog = <<>>
    /\ response = NoResponse

\* etl() starts: the tables are read whole, then the first loop begins
StartLoad ==
    /\ pc \in {"idle", "done"}
    /\ Len(hist) < MaxLoads
    /\ pc' = PhaseOrder[1]
    /\ i' = 1
    /\ skipped' = {}
    /\ response' = NoResponse
    /\ UNCHANGED <<src, g, hist, itemLog>>

\* one iteration of the running loop: one statement, committed on its own
LoadStep ==
    /\ pc \in Range(PhaseOrder)
    /\ i <= Len(Table(src, pc))
    /\ LET row == Table(src, pc)[i]
       IN  /\ g' = LoadRow(g, pc, row)
           /\ skipped' = IF EndpointRows(g', pc, row) = {}
                         THEN skipped \cup {<<pc, i>>} ELSE skipped
           /\ itemLog' = IF pc = "order_items" THEN Append(itemLog, row) ELSE itemLog
    /\ i' = i + 1
    /\ response' = NoResponse
    /\ UNCHANGED <<src, pc, hist>>

\* the running loop is exhausted: the next loop begins
EndPhase ==
    /\ pc \in Range(PhaseOrder)
    /\ i > Len(Table(src, pc))
    /\ AfterPhase(pc) # "done"
    /\ pc' = AfterPhase(pc)
    /\ i' = 1
    /\ response' = NoResponse
    /\ UNCHANGED <<src, g, skipped, hist, itemLog>>

\* the last loop is exhausted: etl() returns
FinishLoad ==
    /\ pc \in Range(PhaseOrder)
    /\ i > Len(Table(src, pc))
    /\ AfterPhase(pc) = "done"
    /\ pc' = "done"
    /\ i' = 1
    /\ hist' = Append(hist, [src |-> src, g |-> g])
    /\ response' = NoResponse
    /\ UNCHANGED <<src, g, skipped, itemLog>>

\* between two loads the relational store moves a product to another category
RecategoriseProduct ==
    /\ pc = "done"
    /\ Len(hist) < MaxLoads
    /\ src = hist[Len(hist)].src
    /\ \E k \in DOMAIN src.products, c \in {"K1", "K2"} :
          /\ k <= MaxRows
          /\ src.products[k].category_id # c
          /\ src' = [src EXCEPT !.products[k].category_id = c]
    /\ response' = NoResponse
    /\ UNCHANGED <<g, pc, i, skipped, hist, itemLog>>

\* between two loads the relational store changes the quantity of an order line
RequantifyItem ==
    /\ pc = "done"
    /\ Len(hist) < MaxLoads
    /\ src = hist[Len(hist)].src
    /\ \E k \in DOMAIN src.order_items, q \in {1, 2} :
          /\ k <= MaxRows
          /\ src.order_items[k].quantity # q
          /\ src' = [src EXCEPT !.order_items[k].quantity = q]
    /\ response' = NoResponse
    /\ UNCHANGED <<g, pc, i, skipped, hist, itemLog>>

Load == StartLoad \/ LoadStep \/ EndPhase \/ FinishLoad

Environment == RecategoriseProduct \/ RequantifyItem

Next == Load \/ Environment

Spec == Init /\ [][Next]_vars

-----------------------------------------------------------------------------
(* The Cypher clauses the queries use.  A row binds the nodes and relationships
   of one match of a pattern, so a pattern matched along two parallel paths
   gives two rows.  0 stands for null. *)

Min(a, b) == IF a <= b THEN a ELSE b

\* (c)-[:PLACED]->(o)-[:CONTAINS]->(p) from customer node c: <<PLACED, CONTAINS>>
PurchasePaths(gr, c) ==
    UNION {{<<pl, ct>> : ct \in {ct \in DOMAIN gr.contains :
                                    gr.contains[ct].from = gr.placed[pl].to}} :
             pl \in {pl \in DOMAIN gr.placed : gr.placed[pl].from = c}}

\* (c)-[:T]->(p) from customer node c, for an event relationship type T
EventEdges(gr, c, type) ==
    {e \in DOMAIN gr.events : gr.events[e].from = c /\ gr.events[e].type = type}

\* OPTIONAL MATCH: the matches, or one null when there is none
Optional(matches, null) == IF matches = {} THEN {null} ELSE matches

\* faulty variant: price descending as the tie-break
RankBeforePriceDesc(gr, a, b) ==
    a.n > b.n \/ (a.n = b.n /\ gr.prods[a.rec].price > gr.prods[b.rec].price)

\* ORDER BY <count> DESC, rec.price ASC: a sorts strictly before b
RankBefore(gr, a, b) ==
    a.n > b.n \/ (a.n = b.n /\ gr.prods[a.rec].price < gr.prods[b.rec].price)

\* ORDER BY <count> DESC, rec.price ASC LIMIT $limit over rows [rec, n]: every
\* sequence the store may return (rows that tie come in any order)
RECURSIVE OrderedLimit(_, _, _)
OrderedLimit(gr, rows, limit) ==
    IF limit = 0 \/ rows = {} THEN {<<>>}
    ELSE UNION {{<<m>> \o t : t \in OrderedLimit(gr, rows \ {m}, limit - 1)} :
                  m \in {m \in rows : \A x \in rows : ~RankBefore(gr, x, m)}}

\* RETURN rec.id as product_id, rec.name as product_name, rec.price as price, <count>
ProductRecords(gr, ranked, countField) ==
    [k \in DOMAIN ranked |->
        (countField :> ranked[k].n)
        @@ [product_id |-> gr.prods[ranked[k].rec].id,
            product_name |-> gr.prods[ranked[k].rec].name,
            price |-> gr.prods[ranked[k].rec].price]]

\* the fixed number of neighbours kept by the collaborative query
NeighbourLimit == 10

\* the subsets of S with k elements
RECURSIVE SubsetsOfSize(_, _)
SubsetsOfSize(S, k) ==
    IF k = 0 THEN {{}}
    ELSE IF Cardinality(S) < k THEN {}
    ELSE LET x == CHOOSE x \in S : TRUE
         IN  {T \cup {x} : T \in SubsetsOfSize(S \ {x}, k - 1)}
             \cup SubsetsOfSize(S \ {x}, k)

\* faulty variant: no LIMIT after ORDER BY common_products DESC: every neighbour is kept
AllNeighbours(rows) == {rows}

\* ORDER BY common_products DESC LIMIT 10: every set of rows the store may keep
\* (rows that tie for the last places come in any order)
TopNeighbours(rows) ==
    LET n == Min(NeighbourLimit, Cardinality(rows))
        Above(r) == {x \in rows : x.common_products > r.common_products}
        Level(r) == {x \in rows : x.common_products = r.common_products}
        sure == {r \in rows : Cardinality(Above(r)) + Cardinality(Level(r)) <= n}
        tied == {r \in rows \ sure : Cardinality(Above(r)) < n}
    IN  {sure \cup T : T \in SubsetsOfSize(tied, n - Cardinality(sure))}

-----------------------------------------------------------------------------
(* The statements of the six query endpoints: each gives the set of record
   sequences the store may return *)

\* MATCH (other)-[:PLACED]->(o3)-[:CONTAINS]->(rec) WHERE NOT rec IN customer_products:
\* the rows <<kept row, <<PLACED, CONTAINS>>>>
CandidateRows(gr, kept) ==
    UNION {{<<row, pw>> : pw \in {pw \in PurchasePaths(gr, row.other) :
                                     gr.contains[pw[2]].to \notin row.customer_products}} :
             row \in kept}

\* WITH rec, count(DISTINCT other) as popularity
CollaborativeCandidates(gr, kept) ==
    LET M3 == CandidateRows(gr, kept)
    IN  {[rec |-> p,
          n |-> Cardinality({r[1].other : r \in {r \in M3 : gr.contains[r[2][2]].to = p}})] :
            p \in {gr.contains[r[2][2]].to : r \in M3}}

\* MATCH (c:Customer {id})-[:PLACED]->(o)-[:CONTAINS]->(p)
\* WITH c, collect(DISTINCT p) as customer_products: one row per matched customer
\* with a purchase, none otherwise
CustomerProducts(gr, customer_id) ==
    {[c |-> c, customer_products |-> {gr.contains[pw[2]].to : pw \in PurchasePaths(gr, c)}] :
        c \in {c \in MatchNodes(gr.custs, customer_id) : PurchasePaths(gr, c) # {}}}

\* MATCH (other:Customer)-[:PLACED]->(o2)-[:CONTAINS]->(p2)
\* WHERE other.id <> c.id AND p2 IN customer_products
\* WITH c, customer_products, other, count(DISTINCT p2) as common_products
CollaborativeNeighbours(gr, customer_id) ==
    LET Common(row, other) ==
            {gr.contains[pw[2]].to : pw \in PurchasePaths(gr, other)}
                \cap row.customer_products
    IN  UNION {{[c |-> row.c, customer_products |-> row.customer_products, other |-> other,
                 common_products |-> Cardinality(Common(row, other))] :
                   other \in {other \in DOMAIN gr.custs :
                                 /\ gr.custs[other].id # gr.custs[row.c].id
                                 /\ Common(row, other) # {}}} :
                row \in CustomerProducts(gr, customer_id)}

CollaborativeQuery(gr, customer_id, limit) ==
    UNION {{ProductRecords(gr, ranked, "popularity") :
               ranked \in OrderedLimit(gr, CollaborativeCandidates(gr, kept), limit)} :
            kept \in TopNeighbours(CollaborativeNeighbours(gr, customer_id))}

\* MATCH (p:Product)<-[:CONTAINS]-(o:Order) WITH p, count(o) as order_count
PopularCounts(gr) ==
    {[rec |-> p, n |-> Cardinality({ct \in DOMAIN gr.contains : gr.contains[ct].to = p})] :
        p \in {gr.contains[ct].to : ct \in DOMAIN gr.contains}}

PopularQuery(gr, limit) ==
    {ProductRecords(gr, ranked, "order_count") :
        ranked \in OrderedLimit(gr, PopularCounts(gr), limit)}

\* MATCH (p:Product {id})-[:IN_CATEGORY]->(cat) MATCH (rec:Product)-[:IN_CATEGORY]->(cat)
\* WHERE rec.id <> p.id OPTIONAL MATCH (rec)<-[:CONTAINS]-(o:Order)
\* WITH rec, count(o) as popularity
ContentCounts(gr, product_id) ==
    LET M2 == {<<e1, e2>> \in (DOMAIN gr.inCategory) \X (DOMAIN gr.inCategory) :
                  /\ gr.inCategory[e1].from \in MatchNodes(gr.prods, product_id)
                  /\ gr.inCategory[e2].to = gr.inCategory[e1].to
                  /\ gr.prods[gr.inCategory[e2].from].id # product_id}
        M3 == UNION {{<<r, ct>> :
                        ct \in Optional({ct \in DOMAIN gr.contains :
                                  gr.contains[ct].to = gr.inCategory[r[2]].from}, 0)} :
                     r \in M2}
    IN  {[rec |-> p,
          n |-> Cardinality({r \in M3 : gr.inCategory[r[1][2]].from = p /\ r[2] # 0})] :
            p \in {gr.inCategory[r[1][2]].from : r \in M3}}

ContentQuery(gr, product_id, limit) ==
    {ProductRecords(gr, ranked, "popularity") :
        ranked \in OrderedLimit(gr, ContentCounts(gr, product_id), limit)}

\* MATCH (p:Product {id})<-[:CONTAINS]-(o:Order)-[:CONTAINS]->(rec:Product)
\* WHERE rec.id <> p.id WITH rec, count(o) as co_purchase_count
\* (one pattern: its two relationships are distinct)
CoPurchaseCounts(gr, product_id) ==
    LET M1 == {<<c1, c2>> \in (DOMAIN gr.contains) \X (DOMAIN gr.contains) :
                  /\ c1 # c2
                  /\ gr.contains[c1].to \in MatchNodes(gr.prods, product_id)
                  /\ gr.contains[c2].from = gr.contains[c1].from
                  /\ gr.prods[gr.contains[c2].to].id # product_id}
    IN  {[rec |-> p, n |-> Cardinality({r \in M1 : gr.contains[r[2]].to = p})] :
            p \in {gr.contains[r[2]].to : r \in M1}}

CoPurchaseQuery(gr, product_id, limit) ==
    {ProductRecords(gr, ranked, "co_purchase_count") :
        ranked \in OrderedLimit(gr, CoPurchaseCounts(gr, product_id), limit)}

\* MATCH (c:Customer {id}) and the four OPTIONAL MATCHes: one row per combination
JourneyRows(gr, customer_id) ==
    UNION {{[c |-> c, v |-> v, cl |-> cl, a |-> a, pu |-> pu] :
               v \in Optional(EventEdges(gr, c, "VIEWED"), 0),
               cl \in Optional(EventEdges(gr, c, "CLICKED"), 0),
               a \in Optional(EventEdges(gr, c, "ADDED_TO_CART"), 0),
               pu \in Optional(PurchasePaths(gr, c), <<0, 0>>)} :
            c \in MatchNodes(gr.custs, customer_id)}

\* faulty variant: count(x) in place of count(DISTINCT x): the rows that bind x are counted
CountRows(bound) == Cardinality({b \in bound : b[2] # 0})

\* count(DISTINCT x) over the pairs <<row, node bound to x in the row>>: the
\* distinct nodes, null apart
CountDistinct(bound) == Cardinality({b[2] : b \in bound} \ {0})

\* RETURN c.name as customer_name, count(DISTINCT viewed) as views, ...: one record
\* per customer_name among the rows, none when there is no row
JourneyQuery(gr, customer_id) ==
    LET rows == JourneyRows(gr, customer_id)
        Viewed(r) == IF r.v = 0 THEN 0 ELSE gr.events[r.v].to
        Clicked(r) == IF r.cl = 0 THEN 0 ELSE gr.events[r.cl].to
        Added(r) == IF r.a = 0 THEN 0 ELSE gr.events[r.a].to
        Purchased(r) == IF r.pu[2] = 0 THEN 0 ELSE gr.contains[r.pu[2]].to
    IN  {LET group == {r \in rows : gr.custs[r.c].name = name}
         IN  [customer_name |-> name,
              views |-> CountDistinct({<<r, Viewed(r)>> : r \in group}),
              clicks |-> CountDistinct({<<r, Clicked(r)>> : r \in group}),
              cart_additions |-> CountDistinct({<<r, Added(r)>> : r \in group}),
              purchases |-> CountDistinct({<<r, Purchased(r)>> : r \in group})] :
            name \in {gr.custs[r.c].name : r \in rows}}

\* MATCH (n:Label) WITH <carried counts>, count(n): with carried columns as the
\* grouping key a label (or relationship set) that is empty leaves no row
CountStage(rows, n) == IF n = 0 THEN {} ELSE {Append(r, n) : r \in rows}

\* MATCH (c:Customer) WITH count(c) as customers: no grouping key, always one row
StatsQuery(gr) ==
    LET relationships == Len(gr.inCategory) + Len(gr.placed) + Len(gr.contains)
                             + Len(gr.events)
        rows == CountStage(CountStage(CountStage(CountStage({<<Len(gr.custs)>>},
                    Len(gr.prods)), Len(gr.ords)), Len(gr.cats)), relationships)
    IN  {[customers |-> r[1], products |-> r[2], orders |-> r[3], categories |-> r[4],
          relationships |-> r[5]] : r \in rows}

-----------------------------------------------------------------------------
(* The query endpoints *)

QueryCustomers == {"C1", "C0"}
QueryProducts == {"P1", "P0"}
Limits == {0, 1, 2, 5}

ListResponse(op, id, limit, records) ==
    [op |-> op, id |-> id, limit |-> limit, error |-> FALSE, body |-> records]

\* dict(result.single()): single() gives a record, or None when the result is
\* empty, and dict(None) raises TypeError
SingleResponses(op, id, records) ==
    IF records = {}
    THEN {[op |-> op, id |-> id, limit |-> 0, error |-> TRUE, body |-> <<>>]}
    ELSE {[op |-> op, id |-> id, limit |-> 0, error |-> FALSE, body |-> r] : r \in records}

collaborative_recommendations ==
    /\ response = NoResponse
    /\ \E id \in QueryCustomers, limit \in Limits :
          \E records \in CollaborativeQuery(g, id, limit) :
              response' = ListResponse("collaborative", id, limit, records)
    /\ UNCHANGED <<src, g, pc, i, skipped, hist, itemLog>>

popular_products ==
    /\ response = NoResponse
    /\ \E limit \in Limits :
          \E records \in PopularQuery(g, limit) :
              response' = ListResponse("popular", "", limit, records)
    /\ UNCHANGED <<src, g, pc, i, skipped, hist, itemLog>>

content_based_recommendations ==
    /\ response = NoResponse
    /\ \E id \in QueryProducts, limit \in Limits :
          \E records \in ContentQuery(g, id, limit) :
              response' = ListResponse("content", id, limit, records)
    /\ UNCHANGED <<src, g, pc, i, skipped, hist, itemLog>>

co_purchase_recommendations ==
    /\ response = NoResponse
    /\ \E id \in QueryProducts, limit \in Limits :
          \E records \in CoPurchaseQuery(g, id, limit) :
              response' = ListResponse("co_purchase", id, limit, records)
    /\ UNCHANGED <<src, g, pc, i, skipped, hist, itemLog>>

customer_journey ==
    /\ response = NoResponse
    /\ \E id \in QueryCustomers :
          response' \in SingleResponses("journey", id, JourneyQuery(g, id))
    /\ UNCHANGED <<src, g, pc, i, skipped, hist, itemLog>>

get_stats ==
    /\ response = NoResponse
    /\ response' \in SingleResponses("stats", "", StatsQuery(g))
    /\ UNCHANGED <<src, g, pc, i, skipped, hist, itemLog>>

\* the handler returns: the response leaves the service
Respond ==
    /\ response # NoResponse
    /\ response' = NoResponse
    /\ UNCHANGED <<src, g, pc, i, skipped, hist, itemLog>>

Query ==
    \/ Respond
    \/ collaborative_recommendations
    \/ popular_products
    \/ content_based_recommendations
    \/ co_purchase_recommendations
    \/ customer_journey
    \/ get_stats

\* the sources the queries are checked over
QuerySources ==
    FixtureSources
    \cup {[BaseSource EXCEPT !.order_items = t] :
             t \in SeqsUpTo({Item("O1", "P1", 1), Item("O1", "P2", 2), Item("O2", "P1", 1)},
                             MaxRows)}

InitQuery == Init /\ src \in QuerySources

NextQuery == Load \/ Query

SpecQuery == InitQuery /\ [][NextQuery]_vars

-----------------------------------------------------------------------------
(* Properties of the loader *)

Ids(nodes) == {nodes[k].id : k \in DOMAIN nodes}

AllLoadsReadSameSource == \A n \in DOMAIN hist : hist[n].src = hist[1].src

\* the Category, Product, Customer and Order nodes and the IN_CATEGORY, PLACED and
\* CONTAINS relationships, with their attributes
CoreOf(gr) ==
    [cats |-> gr.cats, prods |-> gr.prods, custs |-> gr.custs, ords |-> gr.ords,
     inCategory |-> gr.inCategory, placed |-> gr.placed, contains |-> gr.contains]

\* C1: a load that reads the same rows as the load before it leaves the same
\* Category, Product, Customer and Order nodes and the same IN_CATEGORY, PLACED and
\* CONTAINS relationships, with the same attributes, as that load left.
C1_ReloadIsIdempotent ==
    \A n \in DOMAIN hist :
        (n > 1 /\ hist[n].src = hist[n - 1].src)
            => CoreOf(hist[n].g) = CoreOf(hist[n - 1].g)

C1_Witness ==
    /\ Len(hist) = 2
    /\ hist[2].src = hist[1].src
    /\ Len(hist[2].g.cats) = 2 /\ Len(hist[2].g.prods) = 2
    /\ Len(hist[2].g.custs) = 2 /\ Len(hist[2].g.ords) = 2
    /\ Len(hist[2].g.inCategory) = 2 /\ Len(hist[2].g.placed) = 2
    /\ Len(hist[2].g.contains) = 3
    /\ Len(hist[2].g.events) > Len(hist[1].g.events)

\* the relationship type the fixed table gives an event type
TypeOfTable(event_type) ==
    IF event_type = "view" THEN "VIEWED"
    ELSE IF event_type = "click" THEN "CLICKED"
    ELSE IF event_type = "add_to_cart" THEN "ADDED_TO_CART"
    ELSE "INTERACTED"

\* the event relationships that carry the id of an event row, between its
\* customer and its product, of the type of the table
EdgesOfEventRow(gr, row) ==
    {e \in DOMAIN gr.events :
        /\ gr.events[e].event_id = row.id
        /\ gr.events[e].type = TypeOfTable(row.event_type)
        /\ gr.custs[gr.events[e].from].id = row.customer_id
        /\ gr.prods[gr.events[e].to].id = row.product_id}

EndpointsExist(gr, row) ==
    row.customer_id \in Ids(gr.custs) /\ row.product_id \in Ids(gr.prods)

\* C2: after n complete loads of the same source, every event row whose customer
\* and product exist accounts for exactly n relationships of the type of the table
\* that carry its id, and there is no other event relationship.
C2_EventsAppendOnly ==
    (pc = "done" /\ AllLoadsReadSameSource) =>
        /\ \A k \in DOMAIN src.events :
              EndpointsExist(g, src.events[k])
                  => Cardinality(EdgesOfEventRow(g, src.events[k])) = Len(hist)
        /\ Len(g.events) =
              Len(hist) * Cardinality({k \in DOMAIN src.events :
                                          EndpointsExist(g, src.events[k])})

\* two rows for the same customer, product and event type, loaded twice
C2_Witness ==
    /\ pc = "done" /\ Len(hist) = 2 /\ AllLoadsReadSameSource
    /\ \E a, b \in DOMAIN src.events :
          /\ a # b
          /\ src.events[a].customer_id = src.events[b].customer_id
          /\ src.events[a].product_id = src.events[b].product_id
          /\ src.events[a].event_type = src.events[b].event_type
          /\ src.events[a].event_type = "purchase"
          /\ EndpointsExist(g, src.events[a])
    /\ Len(g.events) = 4

\* the category of a product row existed when the row was loaded
HadValidCategory(id) ==
    \E n \in DOMAIN hist : \E k \in DOMAIN hist[n].src.products :
        /\ hist[n].src.products[k].id = id
        /\ hist[n].src.products[k].category_id \in Ids(hist[n].g.cats)

OutCategories(gr, p) == {e \in DOMAIN gr.inCategory : gr.inCategory[e].from = p}

\* C3: after one or more completed loads every Product whose category_id named an
\* existing Category at load time has exactly one outgoing IN_CATEGORY relationship.
C3_ExactlyOneCategory ==
    pc = "done" =>
        \A p \in DOMAIN g.prods :
            HadValidCategory(g.prods[p].id) => Cardinality(OutCategories(g, p)) = 1

\* the rows of order_items processed so far for the pair, by position in the log
RowsOfPair(order_id, product_id) ==
    {k \in DOMAIN itemLog :
        itemLog[k].order_id = order_id /\ itemLog[k].product_id = product_id}

Latest(S) == CHOOSE k \in S : \A j \in S : j <= k

ContainsOfPair(gr, o, p) ==
    {e \in DOMAIN gr.contains : gr.contains[e].from = o /\ gr.contains[e].to = p}

\* C4: an (order, product) pair has at most one CONTAINS relationship, and its
\* quantity is that of the most recently processed order_items row of the pair.
C4_LastQuantityWins ==
    \A o \in DOMAIN g.ords, p \in DOMAIN g.prods :
        /\ Cardinality(ContainsOfPair(g, o, p)) <= 1
        /\ \A e \in ContainsOfPair(g, o, p) :
              /\ RowsOfPair(g.ords[o].id, g.prods[p].id) # {}
              /\ g.contains[e].quantity =
                    itemLog[Latest(RowsOfPair(g.ords[o].id, g.prods[p].id))].quantity

\* a pair written three times or more, the last quantity differing from the first
C4_Witness ==
    \E o \in DOMAIN g.ords, p \in DOMAIN g.prods :
        LET rows == RowsOfPair(g.ords[o].id, g.prods[p].id)
        IN  /\ Cardinality(rows) >= 3
            /\ ContainsOfPair(g, o, p) # {}
            /\ \E a \in rows : itemLog[a].quantity # itemLog[Latest(rows)].quantity
            /\ \E a \in rows : itemLog[a].quantity + itemLog[Latest(rows)].quantity = 3

\* every foreign key of the source names a row of the table it refers to
ReferentiallyClosed(s) ==
    /\ \A k \in DOMAIN s.products : s.products[k].category_id \in Ids(s.categories)
    /\ \A k \in DOMAIN s.orders : s.orders[k].customer_id \in Ids(s.customers)
    /\ \A k \in DOMAIN s.order_items :
          /\ s.order_items[k].order_id \in Ids(s.orders)
          /\ s.order_items[k].product_id \in Ids(s.products)
    /\ \A k \in DOMAIN s.events :
          /\ s.events[k].customer_id \in Ids(s.customers)
          /\ s.events[k].product_id \in Ids(s.products)

\* C5: the loops run in the order categories, products, customers, orders, order
\* items, events, each to its last row before the next begins; and a step of a load
\* whose source is referentially closed leaves no relationship write with an
\* endpoint missing.
C5_OrderedAndNothingSkipped ==
    [][/\ pc' # pc =>
            /\ <<pc, pc'>> \in
                  {<<"idle", "categories">>, <<"done", "categories">>,
                   <<"categories", "products">>, <<"products", "customers">>,
                   <<"customers", "orders">>, <<"orders", "order_items">>,
                   <<"order_items", "events">>, <<"events", "done">>}
            /\ pc \in {"idle", "done"} \/ i > Len(Table(src, pc))
       /\ (src' = src /\ ReferentiallyClosed(src)) => skipped' = {}]_vars

\* a load of a closed source with rows in every table has run to its end
C5_Witness ==
    /\ pc = "done"
    /\ ReferentiallyClosed(src)
    /\ \A k \in DOMAIN PhaseOrder : Len(Table(src, PhaseOrder[k])) >= 2
    /\ skipped = {}
    /\ Len(g.inCategory) = 2 /\ Len(g.placed) = 2 /\ Len(g.contains) = 3
    /\ Len(g.events) = 2

-----------------------------------------------------------------------------
(* Properties of the queries, stated over the ids of the graph *)

\* the ids of the products a customer id has purchased: some PLACED order of a
\* customer node with the id CONTAINS the product
PurchasedIds(gr, customer_id) ==
    LET placedOrders == {gr.placed[pl].to :
                            pl \in {pl \in DOMAIN gr.placed :
                                       gr.custs[gr.placed[pl].from].id = customer_id}}
    IN  {gr.prods[gr.contains[ct].to].id :
            ct \in {ct \in DOMAIN gr.contains : gr.contains[ct].from \in placedOrders}}

\* the ids of the products a customer id reaches by an event relationship type
EventProductIds(gr, customer_id, type) ==
    {gr.prods[gr.events[e].to].id :
        e \in {e \in DOMAIN gr.events :
                  /\ gr.events[e].type = type
                  /\ gr.custs[gr.events[e].from].id = customer_id}}

\* the ids of the orders that contain a product id
OrderIdsOf(gr, product_id) ==
    {gr.ords[gr.contains[ct].from].id :
        ct \in {ct \in DOMAIN gr.contains : gr.prods[gr.contains[ct].to].id = product_id}}

PriceOf(gr, product_id) ==
    gr.prods[CHOOSE p \in DOMAIN gr.prods : gr.prods[p].id = product_id].price

\* body lists distinct products of `count`'s support, each with its count and its
\* price, count descending then price ascending, and is a top-`limit` of them
IsRanking(gr, body, limit, countField, count) ==
    LET cands == {id \in DOMAIN count : count[id] >= 1}
        CountAt(k) == body[k][countField]
    IN  /\ Len(body) = Min(limit, Cardinality(cands))
        /\ \A k \in DOMAIN body :
              /\ body[k].product_id \in cands
              /\ CountAt(k) = count[body[k].product_id]
              /\ body[k].price = PriceOf(gr, body[k].product_id)
        /\ \A j, k \in DOMAIN body :
              j < k => /\ body[j].product_id # body[k].product_id
                       /\ \/ CountAt(j) > CountAt(k)
                          \/ CountAt(j) = CountAt(k) /\ body[j].price <= body[k].price
        /\ \A id \in cands \ {body[k].product_id : k \in DOMAIN body} :
              \A k \in DOMAIN body :
                  \/ count[id] < CountAt(k)
                  \/ count[id] = CountAt(k) /\ PriceOf(gr, id) >= body[k].price

\* C6: a query for a Customer or Product id that matches no node returns an empty
\* result and raises no error.
C6_UnknownIdGivesEmpty ==
    (\/ response.op \in {"collaborative", "journey"} /\ response.id \notin Ids(g.custs)
     \/ response.op \in {"content", "co_purchase"} /\ response.id \notin Ids(g.prods))
        => response.error = FALSE /\ response.body = <<>>

\* C7: in every graph state the stats query returns one record with the numbers of
\* Customer, Product, Order and Category nodes and of relationships of any type.
C7_StatsCountEverything ==
    response.op = "stats" =>
        /\ response.error = FALSE
        /\ response.body =
              [customers |-> Len(g.custs), products |-> Len(g.prods),
               orders |-> Len(g.ords), categories |-> Len(g.cats),
               relationships |-> Len(g.inCategory) + Len(g.placed) + Len(g.contains)
                                     + Len(g.events)]

\* the other customers that share a purchased product with a customer id
Sharing(gr, customer_id) ==
    {o \in Ids(gr.custs) \ {customer_id} :
        PurchasedIds(gr, o) \cap PurchasedIds(gr, customer_id) # {}}

\* C8: the collaborative response for customer A is a top-limit ranking, by
\* popularity descending then price ascending, of the products A has not purchased
\* that were purchased by some neighbour, where the neighbours are min(10, number
\* of sharing customers) customers with the most products in common with A and a
\* product's popularity is the number of neighbours that purchased it.
C8_CollaborativeRanking ==
    response.op = "collaborative" =>
        LET A == response.id
            mine == PurchasedIds(g, A)
            bought == [o \in Ids(g.custs) \ {A} |-> PurchasedIds(g, o)]
            common == [o \in DOMAIN bought |-> Cardinality(bought[o] \cap mine)]
            sharing == {o \in DOMAIN bought : common[o] >= 1}
            kept == Min(10, Cardinality(sharing))
        IN  /\ response.error = FALSE
            /\ \E dropped \in SubsetsOfSize(sharing, Cardinality(sharing) - kept) :
                  LET N == sharing \ dropped
                  IN  /\ \A a \in N, b \in dropped : common[a] >= common[b]
                      /\ IsRanking(g, response.body, response.limit, "popularity",
                             [id \in Ids(g.prods) \ mine |->
                                 Cardinality({o \in N : id \in bought[o]})])

\* more than 10 customers share a product with C1, and the response ranks the
\* products of the 10 kept: P3 bought by all 10, P4 by none of them
C8_Witness ==
    /\ response.op = "collaborative" /\ response.id = "C1" /\ response.limit = 5
    /\ Cardinality(Sharing(g, "C1")) > 10
    /\ Len(response.body) = 1
    /\ response.body[1].product_id = "P3" /\ response.body[1].popularity = 10
    /\ "P4" \in PurchasedIds(g, CustomerIds[NumOthers + 1])

\* C9: the popular-products response is a top-limit ranking, by order count
\* descending then price ascending, of the products some order contains, each with
\* the number of distinct orders that contain it; it is empty for limit 0.
C9_PopularRanking ==
    response.op = "popular" =>
        /\ response.error = FALSE
        /\ IsRanking(g, response.body, response.limit, "order_count",
               [id \in Ids(g.prods) |-> Cardinality(OrderIdsOf(g, id))])
        /\ response.limit = 0 => response.body = <<>>

\* order counts 5, 5, 2 with prices 10, 20, 5 and limit 2
C9_Witness ==
    /\ response.op = "popular" /\ response.limit = 2
    /\ Cardinality(OrderIdsOf(g, "P1")) = 5 /\ PriceOf(g, "P1") = 10
    /\ Cardinality(OrderIdsOf(g, "P2")) = 5 /\ PriceOf(g, "P2") = 20
    /\ Cardinality(OrderIdsOf(g, "P3")) = 2 /\ PriceOf(g, "P3") = 5
    /\ Len(response.body) = 2
    /\ response.body[1].product_id = "P1" /\ response.body[1].order_count = 5
    /\ response.body[2].product_id = "P2" /\ response.body[2].order_count = 5

\* C10: for an existing customer the journey response holds four counts of distinct
\* products: those reached by VIEWED, by CLICKED, by ADDED_TO_CART and by
\* PLACED->CONTAINS, each whatever the other three are.
C10_JourneyCounts ==
    (response.op = "journey" /\ response.id \in Ids(g.custs)) =>
        /\ response.error = FALSE
        /\ response.body.views =
              Cardinality(EventProductIds(g, response.id, "VIEWED"))
        /\ response.body.clicks =
              Cardinality(EventProductIds(g, response.id, "CLICKED"))
        /\ response.body.cart_additions =
              Cardinality(EventProductIds(g, response.id, "ADDED_TO_CART"))
        /\ response.body.purchases = Cardinality(PurchasedIds(g, response.id))

\* 3 viewed products (one viewed over several relationships), 1 clicked, none added
\* to the cart, 2 purchased, one of them also viewed
C10_Witness ==
    /\ response.op = "journey" /\ response.id = "C1" /\ response.error = FALSE
    /\ response.body.views = 3 /\ response.body.clicks = 1
    /\ response.body.cart_additions = 0 /\ response.body.purchases = 2
    /\ Cardinality(EventEdges(g, 1, "VIEWED")) > 3
    /\ EventProductIds(g, "C1", "VIEWED") \cap PurchasedIds(g, "C1") # {}

\* for comparison: the three list endpoints answer an unknown id with an empty list
UnknownIdGivesEmptyList ==
    (\/ response.op = "collaborative" /\ response.id \notin Ids(g.custs)
     \/ response.op \in {"content", "co_purchase"} /\ response.id \notin Ids(g.prods))
        => response.error = FALSE /\ response.body = <<>>

\* for comparison: the stats are right when no label and no relationship set is empty
StatsOfPopulatedGraph ==
    (/\ response.op = "stats"
     /\ Len(g.prods) > 0 /\ Len(g.ords) > 0 /\ Len(g.cats) > 0
     /\ Len(g.inCategory) + Len(g.placed) + Len(g.contains) + Len(g.events) > 0)
        => /\ response.error = FALSE
           /\ response.body =
                 [customers |-> Len(g.custs), products |-> Len(g.prods),
                  orders |-> Len(g.ords), categories |-> Len(g.cats),
                  relationships |-> Len(g.inCategory) + Len(g.placed) + Len(g.contains)
                                        + Len(g.events)]

====
